---- MODULE Spec2Model ----
(***************************************************************************)
(* Three independent UI leaf components of the dashboard front end:        *)
(*   - RawInfluxQLEditor  (influxdb/components/RawInfluxQLEditor.tsx)      *)
(*   - Gauge              (grafana-ui/src/components/Gauge/Gauge.tsx)      *)
(*   - getDisplayProcessor (the value-display pipeline)                    *)
(* They share no runtime state, so each has its own specification; the     *)
(* variables of the other two components are left untouched.               *)
(***************************************************************************)
EXTENDS Integers, Sequences, FiniteSets, TLC

VARIABLES
    \* ---- RawInfluxQLEditor
    query,          \* props.query: the InfluxQuery the parent passes in
    currentQuery,   \* local (shadowed) copy of query.query
    currentAlias,   \* local (shadowed) copy of query.alias
    calls,          \* callback invocations made by the handler of the last event, in order
    nOnChange,      \* number of props.onChange invocations so far
    nOnRunQuery,    \* number of props.onRunQuery invocations so far
    lastEvent,      \* the DOM event handled last: [type, value]
    \* ---- Gauge
    gaugeProps,     \* this.props of the Gauge: minValue, maxValue, scale.thresholds, theme.type
    mounted,        \* componentDidMount has run
    drawCalls,      \* number of times draw() was entered
    plotCalls,      \* number of times $.plot was called
    plotted,        \* options.series.gauges.threshold.values of the last $.plot call
    logged,         \* number of console.log('Gauge rendering error', ...) lines
    lastDraw,       \* how the last draw() ended: [plotCalled, plotThrew, outcome]
    \* ---- getDisplayProcessor
    dpOptions,      \* the options getDisplayProcessor was called with
    dpValue,        \* the raw value handed to the returned processor
    dpResult        \* the DisplayValue it returned

editorVars == <<query, currentQuery, currentAlias, calls, nOnChange, nOnRunQuery, lastEvent>>
gaugeVars == <<gaugeProps, mounted, drawCalls, plotCalls, plotted, logged, lastDraw>>
displayVars == <<dpOptions, dpValue, dpResult>>
vars == <<editorVars, gaugeVars, displayVars>>

\* JavaScript's undefined, for optional string fields
Undefined == "<undefined>"

(***************************************************************************)
(* RawInfluxQLEditor                                                       *)
(***************************************************************************)

\* bound: how many times each callback may be invoked in a run
MaxCalls == 3

\* texts a user can type into the query textarea / the alias input
QueryTexts == {"", "SELECT 1"}
AliasTexts == {"", "$col"}
\* the values of RESULT_FORMATS
RESULT_FORMATS == {"time_series", "table", "logs"}
DEFAULT_RESULT_FORMAT == "time_series"
\* a field of InfluxQuery the editor does not handle
RefIds == {"A", "B"}

InfluxQuery ==
    [refId : RefIds,
     query : QueryTexts \cup {Undefined},
     alias : AliasTexts \cup {Undefined},
     resultFormat : RESULT_FORMATS \cup {Undefined}]

OnChangeCall(q) == [fn |-> "onChange", arg |-> q]
OnRunQueryCall == [fn |-> "onRunQuery", arg |-> Undefined]
Event(type, value) == [type |-> type, value |-> value]

\* useShadowedState(outsideVal): the local value follows the outside value when
\* the outside value changes to something else than the local value
ShadowedState(prevOutsideVal, outsideVal, currentVal) ==
    IF prevOutsideVal # outsideVal /\ currentVal # outsideVal
    THEN outsideVal
    ELSE currentVal

\* the parent re-renders the editor with newQuery as props.query
Rerender(newQuery) ==
    /\ query' = newQuery
    /\ currentQuery' = ShadowedState(query.query, newQuery.query, currentQuery)
    /\ currentAlias' = ShadowedState(query.alias, newQuery.alias, currentAlias)

\* same, after the handler called setCurrentQuery / setCurrentAlias
RerenderAfterSet(newQuery, setQuery, setAlias) ==
    /\ query' = newQuery
    /\ currentQuery' = ShadowedState(query.query, newQuery.query, setQuery)
    /\ currentAlias' = ShadowedState(query.alias, newQuery.alias, setAlias)

\* the value the textarea shows: currentQuery ?? ''
TextAreaValue == IF currentQuery = Undefined THEN "" ELSE currentQuery
\* the value the alias input shows: currentAlias ?? ''
InputValue == IF currentAlias = Undefined THEN "" ELSE currentAlias
\* the value the Select shows: query.resultFormat ?? DEFAULT_RESULT_FORMAT
SelectValue == IF query.resultFormat = Undefined THEN DEFAULT_RESULT_FORMAT ELSE query.resultFormat

\* mutant: the textarea applies its change at once
TextAreaOnChangeEager(text) ==
    /\ nOnChange < MaxCalls
    /\ calls' = <<OnChangeCall([query EXCEPT !.query = text]), OnRunQueryCall>>
    /\ nOnChange' = nOnChange + 1
    /\ nOnRunQuery' = nOnRunQuery + 1
    /\ RerenderAfterSet([query EXCEPT !.query = text], text, currentAlias)
    /\ lastEvent' = Event("changeQuery", text)

\* <TextArea onChange>: setCurrentQuery(e.currentTarget.value)
TextAreaOnChange(text) ==
    /\ text # TextAreaValue
    /\ calls' = <<>>
    /\ RerenderAfterSet(query, text, currentAlias)
    /\ lastEvent' = Event("changeQuery", text)
    /\ UNCHANGED <<nOnChange, nOnRunQuery>>

\* <Input onChange>: setCurrentAlias(e.currentTarget.value)
InputOnChange(text) ==
    /\ text # InputValue
    /\ calls' = <<>>
    /\ RerenderAfterSet(query, currentQuery, text)
    /\ lastEvent' = Event("changeAlias", text)
    /\ UNCHANGED <<nOnChange, nOnRunQuery>>

\* mutant: the blur handler sends only the field that lost focus
ApplyOnlyBlurredField(field) ==
    /\ nOnChange < MaxCalls
    /\ LET q == IF field = "query"
                THEN [query EXCEPT !.query = currentQuery]
                ELSE [query EXCEPT !.alias = currentAlias]
       IN /\ calls' = <<OnChangeCall(q), OnRunQueryCall>>
          /\ Rerender(q)
    /\ nOnChange' = nOnChange + 1
    /\ nOnRunQuery' = nOnRunQuery + 1
    /\ lastEvent' = Event(IF field = "query" THEN "blurQuery" ELSE "blurAlias", Undefined)

\* applyDelayedChangesAndRunQuery, as the onBlur of the textarea (field = "query")
\* or of the alias input (field = "alias"); the parent applies the onChange
applyDelayedChangesAndRunQuery(field) ==
    /\ nOnChange < MaxCalls
    /\ LET q == [query EXCEPT !.query = currentQuery, !.alias = currentAlias]
       IN /\ calls' = <<OnChangeCall(q), OnRunQueryCall>>
          /\ Rerender(q)
    /\ nOnChange' = nOnChange + 1
    /\ nOnRunQuery' = nOnRunQuery + 1
    /\ lastEvent' = Event(IF field = "query" THEN "blurQuery" ELSE "blurAlias", Undefined)

\* mutant: the Select sends the local edits along with the format
SelectOnChangeWithEdits(format) ==
    /\ nOnChange < MaxCalls
    /\ LET q == [query EXCEPT !.resultFormat = format,
                              !.query = currentQuery, !.alias = currentAlias]
       IN /\ calls' = <<OnChangeCall(q), OnRunQueryCall>>
          /\ Rerender(q)
    /\ nOnChange' = nOnChange + 1
    /\ nOnRunQuery' = nOnRunQuery + 1
    /\ lastEvent' = Event("selectFormat", format)

\* <Select onChange>: onChange({ ...query, resultFormat: e.value }); onRunQuery()
SelectOnChange(format) ==
    /\ nOnChange < MaxCalls
    /\ LET q == [query EXCEPT !.resultFormat = format]
       IN /\ calls' = <<OnChangeCall(q), OnRunQueryCall>>
          /\ Rerender(q)
    /\ nOnChange' = nOnChange + 1
    /\ nOnRunQuery' = nOnRunQuery + 1
    /\ lastEvent' = Event("selectFormat", format)

\* the parent passes a different query object without the editor asking for it
PropsChange(newQuery) ==
    /\ newQuery # query
    /\ calls' = <<>>
    /\ Rerender(newQuery)
    /\ lastEvent' = Event("props", Undefined)
    /\ UNCHANGED <<nOnChange, nOnRunQuery>>

\* first render: both shadowed states start as the props values
InitEditor ==
    /\ query \in InfluxQuery
    /\ currentQuery = query.query
    /\ currentAlias = query.alias
    /\ calls = <<>>
    /\ nOnChange = 0
    /\ nOnRunQuery = 0
    /\ lastEvent = Event("mount", Undefined)

(***************************************************************************)
(* Gauge                                                                   *)
(***************************************************************************)

\* bound: longest scale.thresholds list
MaxThresholds == 3
\* bound: how many times draw() may be entered in a run
MaxDraws == 3

ThresholdValues == {20, 60}
ThresholdColors == {"green", "red", "#EAB839"}
ThemeTypes == {"dark", "light"}
MinValues == {0, 10}
MaxValues == {100}

Threshold == [value : ThresholdValues, color : ThresholdColors]

ThresholdLists == UNION {[1..n -> Threshold] : n \in 0..MaxThresholds}

GaugeProps ==
    [minValue : MinValues, maxValue : MaxValues,
     thresholds : ThresholdLists, themeType : ThemeTypes]

\* getColorFromHexRgbOrName(color, theme.type): a hex colour is returned as it
\* is, a named colour becomes the hex of its variant for the theme
getColorFromHexRgbOrName(color, themeType) ==
    CASE color = "green" -> (IF themeType = "dark" THEN "#73BF69" ELSE "#56A64B")
      [] color = "red"   -> (IF themeType = "dark" THEN "#F2495C" ELSE "#E02F44")
      [] OTHER           -> color

\* mutant: every breakpoint takes the colour of its own threshold
getFormattedThresholdsOwnColor(p) ==
    LET thresholds == p.thresholds
        n == Len(thresholds)
    IN [i \in 1..(n + 1) |->
          IF i = n + 1
          THEN [value |-> p.maxValue,
                color |-> getColorFromHexRgbOrName(thresholds[n].color, p.themeType)]
          ELSE IF i = 1
          THEN [value |-> p.minValue,
                color |-> getColorFromHexRgbOrName(thresholds[1].color, p.themeType)]
          ELSE [value |-> thresholds[i].value,
                color |-> getColorFromHexRgbOrName(thresholds[i].color, p.themeType)]]

\* Gauge.getFormattedThresholds for props p with at least one threshold.
\* Sequences are 1-based: thresholds[i] here is thresholds[i - 1] in the source.
getFormattedThresholds(p) ==
    LET thresholds == p.thresholds
        n == Len(thresholds)
        lastThreshold == thresholds[n]
    IN [i \in 1..(n + 1) |->
          IF i = n + 1
          THEN [value |-> p.maxValue,
                color |-> getColorFromHexRgbOrName(lastThreshold.color, p.themeType)]
          ELSE IF i = 1
          THEN [value |-> p.minValue,
                color |-> getColorFromHexRgbOrName(thresholds[1].color, p.themeType)]
          ELSE [value |-> thresholds[i].value,
                color |-> getColorFromHexRgbOrName(thresholds[i - 1].color, p.themeType)]]

\* mutant: draw without the try/catch around $.plot
drawNoCatch(p, plotThrows) ==
    IF Len(p.thresholds) = 0
    THEN [outcome |-> "threw", plotCalled |-> FALSE, plotThrew |-> FALSE,
          values |-> <<>>, logs |-> 0]
    ELSE [outcome |-> IF plotThrows THEN "threw" ELSE "returned",
          plotCalled |-> TRUE, plotThrew |-> plotThrows,
          values |-> getFormattedThresholds(p), logs |-> 0]

\* Gauge.draw with props p; plotThrows says whether $.plot throws this time.
\* With no thresholds, lastThreshold is undefined and reading lastThreshold.color
\* throws a TypeError while the options are built, before the try block.
draw(p, plotThrows) ==
    IF Len(p.thresholds) = 0
    THEN [outcome |-> "threw", plotCalled |-> FALSE, plotThrew |-> FALSE,
          values |-> <<>>, logs |-> 0]
    ELSE [outcome |-> "returned", plotCalled |-> TRUE, plotThrew |-> plotThrows,
          values |-> getFormattedThresholds(p),
          logs |-> IF plotThrows THEN 1 ELSE 0]

\* the effect of one this.draw() call made by a lifecycle method; an exception
\* that leaves the lifecycle method makes React unmount the component
Lifecycle(p, plotThrows) ==
    LET d == draw(p, plotThrows)
    IN /\ drawCalls' = drawCalls + 1
       /\ plotCalls' = IF d.plotCalled THEN plotCalls + 1 ELSE plotCalls
       /\ plotted' = IF d.plotCalled THEN d.values ELSE plotted
       /\ logged' = logged + d.logs
       /\ lastDraw' = [plotCalled |-> d.plotCalled, plotThrew |-> d.plotThrew,
                       outcome |-> d.outcome]
       /\ mounted' = (d.outcome = "returned")

\* the props a re-render can bring: one of the props changed
NextProps(p) ==
    {[p EXCEPT !.thresholds = Append(p.thresholds, t)] :
        t \in IF Len(p.thresholds) < MaxThresholds THEN Threshold ELSE {}}
    \cup {[p EXCEPT !.thresholds = SubSeq(p.thresholds, 1, Len(p.thresholds) - 1)] :
        x \in IF Len(p.thresholds) > 0 THEN {0} ELSE {}}
    \cup {[p EXCEPT !.themeType = t] : t \in ThemeTypes \ {p.themeType}}
    \cup {[p EXCEPT !.minValue = m] : m \in MinValues \ {p.minValue}}

componentDidMount(plotThrows) ==
    /\ ~mounted
    /\ drawCalls < MaxDraws
    /\ Lifecycle(gaugeProps, plotThrows)
    /\ UNCHANGED gaugeProps

componentDidUpdate(newProps, plotThrows) ==
    /\ mounted
    /\ drawCalls < MaxDraws
    /\ gaugeProps' = newProps
    /\ Lifecycle(newProps, plotThrows)

InitGauge ==
    /\ gaugeProps \in GaugeProps
    /\ mounted = FALSE
    /\ drawCalls = 0
    /\ plotCalls = 0
    /\ plotted = <<>>
    /\ logged = 0
    /\ lastDraw = [plotCalled |-> FALSE, plotThrew |-> FALSE, outcome |-> "none"]

(***************************************************************************)
(* getDisplayProcessor                                                     *)
(***************************************************************************)

\* bound: largest whole number among the raw values
MaxNum == 12
\* bound: longest config.mappings list
MaxMappings == 1

\* JavaScript values, tagged with their type
JNum(n) == [t |-> "number", n |-> n]
JNaN == [t |-> "NaN"]
JStr(s) == [t |-> "string", s |-> s]
JBool(b) == [t |-> "boolean", b |-> b]
JNull == [t |-> "null"]
JUndefined == [t |-> "undefined"]
\* an array, with the text its elements join to
JArray(joined) == [t |-> "array", s |-> joined]

Digit == <<"0", "1", "2", "3", "4", "5", "6", "7", "8", "9">>

\* String(n) for a whole number n >= 0
RECURSIVE NumToStr(_)
NumToStr(n) ==
    IF n < 10 THEN Digit[n + 1] ELSE NumToStr(n \div 10) \o Digit[(n % 10) + 1]

RECURSIVE Zeros(_)
Zeros(k) == IF k = 0 THEN "" ELSE "0" \o Zeros(k - 1)

\* toFixed for a whole number: the digits, then the decimals asked for
ToFixed(n, decimals) ==
    IF decimals = 0 THEN NumToStr(n) ELSE NumToStr(n) \o "." \o Zeros(decimals)

\* strings made of white space only
Blank == {" "}

\* the text a time unit formats the first second of the epoch to
EpochText == "1970-01-01 00:00:00"

\* the decimal forms of the whole numbers, each with its number: the digits,
\* with or without decimals
DecimalForms ==
    {<<NumToStr(n), n>> : n \in 0..MaxNum} \cup {<<ToFixed(n, 1), n>> : n \in 0..MaxNum}

\* the texts two-element arrays join to, each with its first element
JoinedForms ==
    {<<NumToStr(n) \o "," \o NumToStr(m), n>> : n \in 0..MaxNum, m \in 0..MaxNum}

\* the number a string is a decimal form of, NaN when it is none
ParseDecimal(s) ==
    IF \E f \in DecimalForms : f[1] = s
    THEN JNum((CHOOSE f \in DecimalForms : f[1] = s)[2])
    ELSE JNaN

\* lodash _.toNumber on a string: white space is trimmed, '' is 0
LodashToNumber(s) == IF s = "" \/ s \in Blank THEN JNum(0) ELSE ParseDecimal(s)

\* parseFloat on a string: the number the string starts with, so the first
\* element of a joined array and the year of a date text; NaN for '' and for
\* white space
ParseFloat(s) ==
    IF s = "" \/ s \in Blank THEN JNaN
    ELSE IF s = EpochText THEN JNum(1970)
    ELSE IF \E f \in JoinedForms : f[1] = s
    THEN JNum((CHOOSE f \in JoinedForms : f[1] = s)[2])
    ELSE ParseDecimal(s)

\* lodash _.toString
LodashToString(value) ==
    CASE value.t = "number"    -> NumToStr(value.n)
      [] value.t = "NaN"       -> "NaN"
      [] value.t = "string"    -> value.s
      [] value.t = "boolean"   -> (IF value.b THEN "true" ELSE "false")
      [] value.t = "array"     -> value.s
      [] OTHER                 -> ""

\* toNumber: any value as a number or NaN
toNumber(value) ==
    IF value.t \in {"number", "NaN"} THEN value
    ELSE IF value = JStr("") \/ value.t \in {"null", "undefined", "array"} THEN JNaN
    ELSE IF value.t = "boolean" THEN (IF value.b THEN JNum(1) ELSE JNum(0))
    ELSE LodashToNumber(value.s)

isNaN(numeric) == numeric.t = "NaN"

\* toStringProcessor
toStringProcessor(value) ==
    [text |-> LodashToString(value), numeric |-> toNumber(value)]

\* the raw values a field can hold
RawValues ==
    {JNum(n) : n \in {0, 1, 7, MaxNum}}
    \cup {JNaN, JNull, JUndefined, JBool(TRUE), JBool(FALSE)}
    \cup {JStr(s) : s \in {"", " ", "abc", "1", "7"}}
    \cup {JArray(""), JArray("1,7")}

\* ---- value mappings (value to text)
MappingValues == {"1", "null"}
MappingTexts == {"", "on", "7"}
ValueMap == [value : MappingValues, text : MappingTexts]
MappingLists == UNION {[1..n -> ValueMap] : n \in 0..MaxMappings}

\* parseFloat(value) for any raw value: the value is turned into a string first
ParseFloatOf(value) ==
    IF value.t = "number" THEN value ELSE ParseFloat(LodashToString(value))

\* whether a value-to-text mapping applies to the value
MappingMatches(m, value) ==
    \/ value.t = "null" /\ m.value = "null"
    \/ /\ ~isNaN(ParseFloatOf(value))
       /\ ~isNaN(ParseFloat(m.value))
       /\ ParseFloatOf(value) = ParseFloat(m.value)

\* getMappedValue(mappings, value): the first mapping that applies, if any
HasMappedValue(mappings, value) ==
    \E i \in 1..Len(mappings) : MappingMatches(mappings[i], value)
getMappedValue(mappings, value) ==
    mappings[CHOOSE i \in 1..Len(mappings) :
                /\ MappingMatches(mappings[i], value)
                /\ \A j \in 1..(i - 1) : ~MappingMatches(mappings[j], value)]

\* ---- units
timeFormats == {"dateTimeAsIso", "dateTimeAsUS", "dateTimeFromNow"}
DEFAULT_DATE_TIME_FORMAT == "YYYY-MM-DD HH:mm:ss"
DefaultTimeUnit == "time:" \o DEFAULT_DATE_TIME_FORMAT
\* the units that start with 'time:'
TimePrefixedUnits == {DefaultTimeUnit}
Units == {Undefined, "percent", "dateTimeAsIso"}
FieldTypes == {"number", "time"}

\* the unit getDisplayProcessor leaves in config.unit
NormalizedUnit(type, unit) ==
    IF type = "time"
    THEN IF unit # Undefined /\ unit \in timeFormats THEN unit
         ELSE IF unit # Undefined /\ unit \in TimePrefixedUnits THEN unit
         ELSE DefaultTimeUnit
    ELSE unit

\* getValueFormat(unit || 'none') applied to a whole number
formatFunc(unit, n, decimals) ==
    CASE unit = Undefined -> [text |-> ToFixed(n, decimals), prefix |-> Undefined, suffix |-> Undefined]
      [] unit = "percent" -> [text |-> ToFixed(n, decimals), prefix |-> Undefined, suffix |-> "%"]
      [] OTHER            -> [text |-> EpochText, prefix |-> Undefined, suffix |-> Undefined]

\* number of decimal digits of n >= 1, minus one: floor(log10(n))
RECURSIVE FloorLog10(_)
FloorLog10(n) == IF n < 10 THEN 0 ELSE 1 + FloorLog10(n \div 10)

\* getDecimalsForValue for a whole number n >= 0 (value % 1 === 0, so dec = 0;
\* norm = n / 10^(e-1) >= 7.5, so size = 10 * magn = 10^e)
\* decimalOverride is a JavaScript value: _.isNumber(decimalOverride) decides
getDecimalsForValue(n, decimalOverride) ==
    IF decimalOverride.t = "number"
    THEN [decimals |-> decimalOverride.n, scaledDecimals |-> JNull]
    ELSE [decimals |-> 0,
          scaledDecimals |-> IF n = 0 THEN [t |-> "Infinity"]
                             ELSE JNum(0 - FloorLog10(n) + 2)]

\* ---- scale
ScaleThresholds ==
    {<<[value |-> 0, color |-> "green"], [value |-> 5, color |-> "red"]>>,
     <<[value |-> 0, color |-> "#EAB839"]>>}

\* getActiveThreshold: the last threshold the value reaches, the first by default
\* (no comparison with NaN is true, so NaN gets the first threshold)
RECURSIVE ActiveIndex(_, _, _)
ActiveIndex(numeric, thresholds, i) ==
    IF i > Len(thresholds) \/ isNaN(numeric) \/ numeric.n < thresholds[i].value
    THEN (IF i = 1 THEN 1 ELSE i - 1)
    ELSE ActiveIndex(numeric, thresholds, i + 1)

\* the scale calculator getScaleCalculator(field, theme) returns
scaleFunc(options, numeric) ==
    LET threshold == options.thresholds[ActiveIndex(numeric, options.thresholds, 1)]
        themeType == IF options.themeType = Undefined THEN "dark" ELSE options.themeType
    IN [threshold |-> threshold,
        color |-> getColorFromHexRgbOrName(threshold.color, themeType)]

\* { ...base, ...extra }
Spread(base, extra) ==
    [k \in DOMAIN base \cup DOMAIN extra |->
        IF k \in DOMAIN extra THEN extra[k] ELSE base[k]]

\* ---- the processor
NoOptions == [t |-> "none"]
NoValues == {Undefined, "-"}
DecimalOverrides == {JUndefined, JNum(1)}
OptionThemes == {Undefined, "light"}

\* options with a field: field.type, and field.config's unit, decimals,
\* mappings, noValue and scale.thresholds; theme.type
FieldOptions ==
    [t : {"field"}, type : FieldTypes, unit : Units, decimals : DecimalOverrides,
     mappings : MappingLists, noValue : NoValues,
     thresholds : ScaleThresholds, themeType : OptionThemes]

DisplayProcessorOptions == {NoOptions} \cup FieldOptions

\* getDisplayProcessor up to the returned closure: a time field's unit is
\* replaced in config when it is no time unit
WithNormalizedUnit(options) ==
    IF options.t = "none" THEN options
    ELSE [options EXCEPT !.unit = NormalizedUnit(options.type, options.unit)]

\* the closure's locals text, numeric, prefix, suffix where the value has been
\* mapped and formatted, before either return
Formatted(options, value) ==
    LET mappings == options.mappings
        mapped == Len(mappings) > 0 /\ HasMappedValue(mappings, value)
        text1 == IF mapped THEN getMappedValue(mappings, value).text
                 ELSE LodashToString(value)
        v == toNumber(JStr(text1))
        numeric == IF mapped /\ ~isNaN(v) THEN v ELSE toNumber(value)
        shouldFormat == ~mapped
        doFormat == ~isNaN(numeric) /\ shouldFormat /\ value.t # "boolean"
        f == formatFunc(options.unit, numeric.n,
                        getDecimalsForValue(numeric.n, options.decimals).decimals)
        text2 == IF ~doFormat THEN text1
                 ELSE IF Len(mappings) > 0 /\ HasMappedValue(mappings, JStr(f.text))
                 THEN getMappedValue(mappings, JStr(f.text)).text
                 ELSE f.text
    IN [text |-> text2, numeric |-> numeric,
        prefix |-> IF doFormat THEN f.prefix ELSE Undefined,
        suffix |-> IF doFormat THEN f.suffix ELSE Undefined]

\* mutant: the scale info is computed for the number of the raw value
DisplayProcessorRawScale(options, value) ==
    IF options.t = "none" THEN toStringProcessor(value)
    ELSE LET d == Formatted(options, value)
         IN IF ~isNaN(d.numeric) /\ d.text # ""
            THEN Spread(d, scaleFunc(options, toNumber(value)))
            ELSE [d EXCEPT !.text = IF d.text # "" THEN d.text
                                    ELSE IF options.noValue # Undefined THEN options.noValue
                                    ELSE ""]

\* the DisplayProcessor getDisplayProcessor(options) returns, applied to value
DisplayProcessor(options, value) ==
    IF options.t = "none" THEN toStringProcessor(value)
    ELSE LET d == Formatted(options, value)
         IN IF ~isNaN(d.numeric) /\ d.text # ""
            THEN Spread(d, scaleFunc(options, d.numeric))
            ELSE [d EXCEPT !.text = IF d.text # "" THEN d.text
                                    ELSE IF options.noValue # Undefined THEN options.noValue
                                    ELSE ""]

NotProcessed == [t |-> "none"]
\* getDisplayProcessor has not been called yet
NotCreated == [t |-> "not created"]

\* getDisplayProcessor(options): a run follows the one processor it returns
GetDisplayProcessor(options) ==
    /\ dpOptions = NotCreated
    /\ dpOptions' = WithNormalizedUnit(options)
    /\ UNCHANGED <<dpValue, dpResult>>

\* the processor is applied to a raw value
ProcessValue(value) ==
    /\ dpOptions # NotCreated
    /\ dpValue' = value
    /\ dpResult' = DisplayProcessor(dpOptions, value)
    /\ UNCHANGED dpOptions

InitDisplay ==
    /\ dpOptions = NotCreated
    /\ dpValue = NotProcessed
    /\ dpResult = NotProcessed

(***************************************************************************)
(* Specifications: one per component, the other two components idle        *)
(***************************************************************************)

IdleEditor ==
    /\ query = [refId |-> "A", query |-> Undefined, alias |-> Undefined,
                resultFormat |-> Undefined]
    /\ currentQuery = Undefined
    /\ currentAlias = Undefined
    /\ calls = <<>>
    /\ nOnChange = 0
    /\ nOnRunQuery = 0
    /\ lastEvent = Event("mount", Undefined)

IdleGauge ==
    /\ gaugeProps = [minValue |-> 0, maxValue |-> 100, thresholds |-> <<>>,
                     themeType |-> "dark"]
    /\ mounted = FALSE
    /\ drawCalls = 0
    /\ plotCalls = 0
    /\ plotted = <<>>
    /\ logged = 0
    /\ lastDraw = [plotCalled |-> FALSE, plotThrew |-> FALSE, outcome |-> "none"]

IdleDisplay ==
    /\ dpOptions = NotCreated
    /\ dpValue = NotProcessed
    /\ dpResult = NotProcessed

InitEditorSpec == InitEditor /\ IdleGauge /\ IdleDisplay

NextEditor ==
    \/ \E text \in QueryTexts :
          TextAreaOnChange(text) /\ UNCHANGED <<gaugeVars, displayVars>>
    \/ \E text \in AliasTexts :
          InputOnChange(text) /\ UNCHANGED <<gaugeVars, displayVars>>
    \/ \E field \in {"query", "alias"} :
          applyDelayedChangesAndRunQuery(field) /\ UNCHANGED <<gaugeVars, displayVars>>
    \/ \E format \in RESULT_FORMATS :
          SelectOnChange(format) /\ UNCHANGED <<gaugeVars, displayVars>>
    \/ \E newQuery \in InfluxQuery :
          PropsChange(newQuery) /\ UNCHANGED <<gaugeVars, displayVars>>

SpecEditor == InitEditorSpec /\ [][NextEditor]_vars

InitGaugeSpec == InitGauge /\ IdleEditor /\ IdleDisplay

NextGauge ==
    \/ \E plotThrows \in BOOLEAN :
          componentDidMount(plotThrows) /\ UNCHANGED <<editorVars, displayVars>>
    \/ \E newProps \in NextProps(gaugeProps), plotThrows \in BOOLEAN :
          componentDidUpdate(newProps, plotThrows) /\ UNCHANGED <<editorVars, displayVars>>

SpecGauge == InitGaugeSpec /\ [][NextGauge]_vars

InitDisplaySpec == InitDisplay /\ IdleEditor /\ IdleGauge

NextDisplay ==
    \/ \E options \in DisplayProcessorOptions :
          GetDisplayProcessor(options) /\ UNCHANGED <<editorVars, gaugeVars>>
    \/ \E value \in RawValues :
          ProcessValue(value) /\ UNCHANGED <<editorVars, gaugeVars>>

SpecDisplay == InitDisplaySpec /\ [][NextDisplay]_vars

Init == InitEditorSpec
Next == NextEditor
Spec == SpecEditor

(***************************************************************************)
(* Properties                                                              *)
(***************************************************************************)

\* C1: a text change in the query textarea or in the alias input calls neither
\* onChange nor onRunQuery and leaves props.query alone; only the local
\* (shadowed) value of the edited field changes, to the text typed.
C1_EditsWaitForBlur ==
    [][lastEvent'.type \in {"changeQuery", "changeAlias"} =>
          /\ calls' = <<>>
          /\ nOnChange' = nOnChange
          /\ nOnRunQuery' = nOnRunQuery
          /\ query' = query
          /\ lastEvent'.type = "changeQuery" =>
                currentQuery' = lastEvent'.value /\ currentAlias' = currentAlias
          /\ lastEvent'.type = "changeAlias" =>
                currentAlias' = lastEvent'.value /\ currentQuery' = currentQuery]_vars

\* C1 witness: both fields have been edited, nothing was sent to the parent
C1_Witness ==
    /\ lastEvent.type \in {"changeQuery", "changeAlias"}
    /\ currentQuery = "SELECT 1" /\ query.query # "SELECT 1"
    /\ currentAlias = "$col" /\ query.alias # "$col"
    /\ nOnChange = 0 /\ nOnRunQuery = 0

\* C2: a selection in the format Select calls onChange once with the props
\* query in which only resultFormat is replaced by the selected value (query
\* and alias are the props values, not the local edits), then onRunQuery once.
C2_FormatAppliedImmediately ==
    [][lastEvent'.type = "selectFormat" =>
          /\ calls' = <<OnChangeCall([query EXCEPT !.resultFormat = lastEvent'.value]),
                        OnRunQueryCall>>
          /\ nOnChange' = nOnChange + 1
          /\ nOnRunQuery' = nOnRunQuery + 1]_vars

\* C2 witness: a format was selected while a typed query text was still unapplied
C2_Witness ==
    /\ lastEvent.type = "selectFormat"
    /\ Len(calls) = 2
    /\ currentQuery = "SELECT 1"
    /\ calls[1].arg.query # "SELECT 1"
    /\ calls[1].arg.resultFormat = "table"

\* C3: a blur of the textarea or of the alias input calls onChange once and
\* then onRunQuery once; the query passed has the local query text and the
\* local alias together, every other field is the props value.
C3_BlurAppliesBothEdits ==
    [][lastEvent'.type \in {"blurQuery", "blurAlias"} =>
          /\ calls' = <<OnChangeCall([query EXCEPT !.query = currentQuery,
                                                   !.alias = currentAlias]),
                        OnRunQueryCall>>
          /\ nOnChange' = nOnChange + 1
          /\ nOnRunQuery' = nOnRunQuery + 1]_vars

\* C3 witness: the alias input lost focus and the first onChange carried a typed
\* query text and a typed alias, the format still unset
C3_Witness ==
    /\ lastEvent.type = "blurAlias"
    /\ nOnChange = 1
    /\ Len(calls) = 2
    /\ calls[1].arg.query = "SELECT 1"
    /\ calls[1].arg.alias = "$col"
    /\ calls[1].arg.resultFormat = Undefined
    /\ calls[2] = OnRunQueryCall

\* C4: when $.plot throws during a draw, the draw logs it and returns, the
\* component stays mounted, and after such a draw an update draws and plots again.
C4_PlotErrorSwallowed ==
    [][/\ (drawCalls' = drawCalls + 1 /\ lastDraw'.plotThrew) =>
             /\ lastDraw'.outcome = "returned"
             /\ mounted'
             /\ logged' = logged + 1
       /\ (lastDraw.plotThrew /\ gaugeProps' # gaugeProps /\ Len(gaugeProps'.thresholds) > 0) =>
             /\ drawCalls' = drawCalls + 1
             /\ plotCalls' = plotCalls + 1]_vars

\* C4 witness: two draws in a row had $.plot throw; both were logged
C4_Witness ==
    /\ lastDraw.plotThrew
    /\ drawCalls = 2
    /\ plotCalls = 2
    /\ logged = 2
    /\ mounted

\* the display value holds text, numeric, prefix and suffix and the scale
\* calculator's output for its numeric
C5_HasScaleInfo ==
    /\ DOMAIN dpResult = {"text", "numeric", "prefix", "suffix", "threshold", "color"}
    /\ dpResult.threshold = scaleFunc(dpOptions, dpResult.numeric).threshold
    /\ dpResult.color = scaleFunc(dpOptions, dpResult.numeric).color

\* C5 as claimed: every raw value whose number is not NaN gets a display value
\* with the scale calculator's output.
C5_Original ==
    (/\ dpOptions.t = "field"
     /\ dpValue # NotProcessed
     /\ ~isNaN(toNumber(dpValue)))
    => C5_HasScaleInfo

\* C5 amended: every raw value whose number is not NaN and whose text, after
\* value mapping and formatting, is not empty gets a display value with the
\* scale calculator's output for its numeric.
C5_ScaleInfoWhenTextNotEmpty ==
    (/\ dpOptions.t = "field"
     /\ dpValue # NotProcessed
     /\ ~isNaN(toNumber(dpValue))
     /\ Formatted(dpOptions, dpValue).text # "")
    => C5_HasScaleInfo

\* C5 witness: the number 1 is mapped to the text '7' and coloured as 7
C5_Witness ==
    /\ dpOptions.t = "field"
    /\ dpValue = JNum(1)
    /\ dpResult.text = "7"
    /\ dpResult.numeric = JNum(7)
    /\ "color" \in DOMAIN dpResult
    /\ dpResult.color = "#E02F44"

\* C6: for n >= 1 thresholds the breakpoints handed to $.plot are n + 1: the
\* first has minValue and the colour of the first threshold, each one between
\* has its threshold's value and the colour of the threshold before, the last
\* has maxValue and the colour of the last threshold; the first threshold's
\* value does not matter.
C6_FormattedThresholds ==
    lastDraw.plotCalled =>
        LET thresholds == gaugeProps.thresholds
            n == Len(thresholds)
            color(i) == getColorFromHexRgbOrName(thresholds[i].color, gaugeProps.themeType)
        IN /\ n >= 1
           /\ Len(plotted) = n + 1
           /\ plotted[1] = [value |-> gaugeProps.minValue, color |-> color(1)]
           /\ \A i \in 2..n :
                 plotted[i] = [value |-> thresholds[i].value, color |-> color(i - 1)]
           /\ plotted[n + 1] = [value |-> gaugeProps.maxValue, color |-> color(n)]
           /\ \A v \in ThresholdValues :
                 getFormattedThresholds(
                     [gaugeProps EXCEPT !.thresholds[1].value = v]) = plotted

\* C6 witness: three thresholds of three colours were plotted
C6_Witness ==
    /\ lastDraw.plotCalled
    /\ Len(gaugeProps.thresholds) = 3
    /\ gaugeProps.thresholds[1].color = "green"
    /\ gaugeProps.thresholds[2].color = "#EAB839"
    /\ gaugeProps.thresholds[3].color = "red"
    /\ gaugeProps.thresholds[1].value # gaugeProps.minValue
    /\ Len(plotted) = 4

====
